---- MODULE Spec2Model ----
(***************************************************************************)
(* Model of gh-nx-labeler (src/main.ts, the getPRInfo-based revision at    *)
(* lines 196-430): tag derivation from the nx project catalog and label    *)
(* synchronisation against the GitHub REST API.                            *)
(*                                                                         *)
(* Representation.  A tag or label name is the sequence of the segments    *)
(* that String.split(':') yields for it: "lib:core" is <<"lib","core">>,   *)
(* "all projects affected" is <<"all projects affected">>.  A JavaScript   *)
(* Set<string> is the duplicate-free sequence of its elements in insertion *)
(* order (the order for..of and Array.from visit them).  The JavaScript    *)
(* value undefined is Undefined, which a template literal prints as the    *)
(* text "undefined".                                                       *)
(***************************************************************************)
EXTENDS Integers, Sequences, FiniteSets, TLC

\* ------------------------------------------------------------------ bounds
MaxAffected == 2

\* ------------------------------------------------------- program constants
PerPage == 100

Undefined == "undefined"

defaultAllAffectedTag == <<"all projects affected">>

defaultProjectTypeAbbreviations ==
  [k \in {"application", "library", "language"} |->
     CASE k = "application" -> "app"
       [] k = "library"     -> "lib"
       [] k = "language"    -> "lang"]

defaultLabelPrefixDefinitions ==
  [k \in {"app", "lang", "lib"} |->
     CASE k = "app"  -> [color |-> "D4C5F9", description |-> "Pull request affected the application"]
       [] k = "lang" -> [color |-> "C2E0C6", description |-> "Projects of this language were affected by the pull request"]
       [] k = "lib"  -> [color |-> "BFD4F2", description |-> "Pull request affected the library"]]

\* ------------------------------------------------------------ input spaces
\* PROJECT_TYPE_ABBREVIATIONS: the default, or a JSON override.
AbbreviationMaps ==
  { defaultProjectTypeAbbreviations,
    [k \in {"application"} |-> "app"],
    [k \in {"application", "library"} |-> IF k = "application" THEN "app" ELSE ""] }

\* LABEL_PREFIX_DEFINITIONS: the default, or a JSON override.
LabelPrefixMaps ==
  { defaultLabelPrefixDefinitions,
    [k \in {"lib"} |-> [color |-> "000000", description |-> "library"]] }

\* The nx workspace: every project configuration that may be in the graph.
AllConfigurations ==
  [p \in {"core", "web", "tool"} |->
     CASE p = "core" -> [projectType |-> "library", name |-> "core",
                         tags |-> << <<"library", "ui", "v2">> >>]
       [] p = "web"  -> [projectType |-> "application", name |-> "web",
                         tags |-> << <<"lib", "core">> >>]
       [] p = "tool" -> [projectType |-> Undefined, name |-> "tool",
                         tags |-> << <<"application">> >>]]

Catalogs ==
  { [p \in ps |-> AllConfigurations[p]] : ps \in SUBSET DOMAIN AllConfigurations }

\* Output of `nx show projects --affected`: distinct projects of the catalog.
AffectedLists(configurations) ==
  UNION { { s \in [1..n -> DOMAIN configurations] :
              \A i, j \in 1..n : i # j => s[i] # s[j] } : n \in 0..MaxAffected }

\* github.context: the repository, and the issue number (0 on a push event).
CtxOwner == "gorilainvest"
CtxRepo == "securities"
PRNumber == 7
OtherPRNumber == 8
IssueNumbers == {0, PRNumber}

\* Replies of listPullRequestsAssociatedWithCommit: an API error, or a list.
PRReplies ==
  { [ok |-> FALSE, data |-> <<>>],
    [ok |-> TRUE,  data |-> <<>>],
    [ok |-> TRUE,  data |-> <<PRNumber>>],
    [ok |-> TRUE,  data |-> <<OtherPRNumber, PRNumber>>] }

\* Labels the repository holds before the run: unrelated labels (counted,
\* their names are never tags) followed by labels that are tags.
InitialFillers == {0, PerPage - 1, PerPage, 2 * PerPage}
InitialRepoLabels ==
  { <<>>, << <<"lib", "core">> >>, << <<"library", "ui">>, <<"app", "web">> >> }

Runs == {1, 2}

\* ------------------------------------------------------ JavaScript helpers
\* obj[key] on a Record<string,string>
Get(obj, key) == IF key \in DOMAIN obj THEN obj[key] ELSE Undefined

\* if (value) on a string | undefined
Truthy(value) == value # Undefined /\ value # ""

\* const [a, b] = array : the i-th element, undefined past the end
At(array, i) == IF i <= Len(array) THEN array[i] ELSE Undefined

\* Set.prototype.add
SetAdd(set, x) == IF \E i \in 1..Len(set) : set[i] = x THEN set ELSE Append(set, x)

\* Set.prototype.has, and the elements as a mathematical set
Elems(set) == { set[i] : i \in 1..Len(set) }

Min(a, b) == IF a < b THEN a ELSE b
Max(a, b) == IF a > b THEN a ELSE b

\* ------------------------------------------------------------ Tag Deriver
\* The inner loop over config.tags (src/main.ts 326-333).
RECURSIVE addDeclaredTags(_, _, _, _)
addDeclaredTags(tags, declared, i, projectTypeAbbreviations) ==
  IF i > Len(declared) THEN tags
  ELSE LET tag == declared[i]
           tagPrefix == At(tag, 1)
           tagSuffix == At(tag, 2)
       IN addDeclaredTags(
            IF Truthy(Get(projectTypeAbbreviations, tagPrefix))
            THEN SetAdd(tags, <<tagPrefix, tagSuffix>>)
            ELSE SetAdd(tags, tag),
            declared, i + 1, projectTypeAbbreviations)

\* The tag synthesized from a project's type and name (src/main.ts 334).
synthesizedTag(config, projectTypeAbbreviations) ==
  << Get(projectTypeAbbreviations, config.projectType), config.name >>

\* The outer loop over the affected projects (src/main.ts 324-335).
RECURSIVE addProjectTags(_, _, _, _, _)
addProjectTags(tags, affectedList, i, configs, projectTypeAbbreviations) ==
  IF i > Len(affectedList) THEN tags
  ELSE LET config == configs[affectedList[i]]
       IN addProjectTags(
            SetAdd(addDeclaredTags(tags, config.tags, 1, projectTypeAbbreviations),
                   synthesizedTag(config, projectTypeAbbreviations)),
            affectedList, i + 1, configs, projectTypeAbbreviations)

\* affected.length === 0 : the early `return` without a value.
NoAffectedResult == [defined |-> FALSE, tags |-> <<>>]

\* collectAffectedTags without the all-affected short circuit.
collectAffectedTags_noShortCircuit(allAffectedTag, affectedList, configs, projectTypeAbbreviations) ==
  IF Len(affectedList) = 0
  THEN NoAffectedResult
  ELSE [defined |-> TRUE,
        tags |-> addProjectTags(<<>>, affectedList, 1, configs,
                                projectTypeAbbreviations)]

\* collectAffectedTags: what the promise resolves to.  `defined` is FALSE
\* when the function returns undefined instead of a Set.
collectAffectedTags(allAffectedTag, affectedList, configs, projectTypeAbbreviations) ==
  IF Len(affectedList) = 0
  THEN NoAffectedResult
  ELSE IF Len(affectedList) = Cardinality(DOMAIN configs)
       THEN [defined |-> TRUE, tags |-> SetAdd(<<>>, allAffectedTag)]
       ELSE [defined |-> TRUE,
             tags |-> addProjectTags(<<>>, affectedList, 1, configs,
                                     projectTypeAbbreviations)]

\* ------------------------------------------------------- Label Synchronizer
\* createMissingLabels without the existingLabels.has(tag) test.
needsCreation_ignoreExisting(tag, existingLabels, labelPrefix) ==
  At(tag, 1) \in DOMAIN labelPrefix

\* Whether createMissingLabels creates `tag` (src/main.ts 370-372).
needsCreation(tag, existingLabels, labelPrefix) ==
  /\ tag \notin existingLabels
  /\ At(tag, 1) \in DOMAIN labelPrefix

\* fetchRepositoryLabels that goes on until a page is empty.
hasMorePages_untilEmpty(count) == count > 0

\* fetchRepositoryLabels that stops after the first page.
hasMorePages_never(count) == FALSE

\* fetchRepositoryLabels: hasMorePages = result.data.length === 100
hasMorePages(count) == count = PerPage

\* GitHub's label listing: the unrelated labels first, then the tag labels in
\* creation order; page p holds entries (p-1)*perPage+1 .. p*perPage.
PageFirst(p) == (p - 1) * PerPage + 1
PageLast(p) == p * PerPage
ListedCount(filler, labels, p) ==
  Max(0, Min(PageLast(p), filler + Len(labels)) - PageFirst(p) + 1)
ListedNames(filler, labels, p) ==
  { labels[j] : j \in { k \in 1..Len(labels) :
                          filler + k >= PageFirst(p) /\ filler + k <= PageLast(p) } }
ListedFiller(filler, p) ==
  Max(0, Min(PageLast(p), filler) - PageFirst(p) + 1)

\* One record per external call a run has issued, in order.
Call(op, owner, repo) ==
  [op |-> op, owner |-> owner, repo |-> repo, ok |-> TRUE, number |-> 0,
   page |-> 0, count |-> 0, name |-> <<>>, color |-> "", description |-> "",
   labels |-> <<>>, existed |-> FALSE]

\* ----------------------------------------------------------------- state
VARIABLES
  ctx,              \* github.context: owner, repo, issue number
  env,              \* getEnvironmentVariables(): token and the maps
  configurations,   \* the nx project catalog
  affected,         \* the nx affected list
  repoFiller,       \* repository: number of unrelated labels
  repoLabels,       \* repository: tag labels, in creation order
  pc,               \* per run: position in run()
  pullRequestInfo,  \* per run: run()'s pullRequestInfo
  affectedTags,     \* per run: result of collectAffectedTags
  prInfo,           \* per run: {owner, repo} local to fetch/create
  page,             \* per run: fetchRepositoryLabels' page
  repositoryLabels, \* per run: fetchRepositoryLabels' result (tag names)
  fetchedFiller,    \* per run: unrelated names in that result
  idx,              \* per run: position of createMissingLabels' loop
  calls,            \* per run: external calls that have returned, in order
  outstanding       \* per run: external calls awaited, not yet returned

vars == << ctx, env, configurations, affected, repoFiller, repoLabels, pc,
           pullRequestInfo, affectedTags, prInfo, page, repositoryLabels,
           fetchedFiller, idx, calls, outstanding >>

inputs == << ctx, env, configurations, affected >>

NoPRInfo == [owner |-> "", repo |-> "", number |-> 0]

Init ==
  /\ ctx \in [owner : {CtxOwner}, repo : {CtxRepo}, issueNumber : IssueNumbers]
  /\ env \in [token : {"", "ghs"},
              allAffectedTag : {defaultAllAffectedTag},
              projectTypeAbbreviations : AbbreviationMaps,
              labelPrefix : LabelPrefixMaps]
  /\ configurations \in Catalogs
  /\ affected \in AffectedLists(configurations)
  /\ repoFiller \in InitialFillers
  /\ repoLabels \in InitialRepoLabels
  /\ pc = [r \in Runs |-> "start"]
  /\ pullRequestInfo = [r \in Runs |-> NoPRInfo]
  /\ affectedTags = [r \in Runs |-> NoAffectedResult]
  /\ prInfo = [r \in Runs |-> NoPRInfo]
  /\ page = [r \in Runs |-> 1]
  /\ repositoryLabels = [r \in Runs |-> {}]
  /\ fetchedFiller = [r \in Runs |-> 0]
  /\ idx = [r \in Runs |-> 1]
  /\ calls = [r \in Runs |-> <<>>]
  /\ outstanding = [r \in Runs |-> <<>>]

\* ------------------------------------------------------ PR Context Resolver
\* getPRInfo (src/main.ts 257-272) given the reply the REST call would get.
\* `called` tells whether the REST call was issued, `threw` whether the
\* promise rejected (an API error, or data[0] undefined on an empty list).
getPRInfo(context, reply) ==
  IF context.issueNumber # 0
  THEN [called |-> FALSE, threw |-> FALSE,
        info |-> [owner |-> context.owner, repo |-> context.repo,
                  number |-> context.issueNumber]]
  ELSE IF reply.ok /\ Len(reply.data) > 0
       THEN [called |-> TRUE, threw |-> FALSE,
             info |-> [owner |-> context.owner, repo |-> context.repo,
                       number |-> reply.data[1]]]
       ELSE [called |-> TRUE, threw |-> TRUE, info |-> NoPRInfo]

\* The call log after getPRInfo.
LogPRCall(log, context, reply, res) ==
  IF res.called
  THEN Append(log, [Call("listPullRequestsAssociatedWithCommit",
                         context.owner, context.repo)
                      EXCEPT !.ok = reply.ok, !.count = Len(reply.data),
                             !.number = IF Len(reply.data) > 0
                                        THEN reply.data[1] ELSE 0])
  ELSE log

\* GitHub creates, on addLabels, the labels the repository does not have.
RECURSIVE AppendMissing(_, _, _)
AppendMissing(labels, names, i) ==
  IF i > Len(names) THEN labels
  ELSE AppendMissing(SetAdd(labels, names[i]), names, i + 1)

\* ----------------------------------------------------------------- run()
\* The external call the code at pc[r] makes, "" when it makes none.
CallSite(r) ==
  CASE pc[r] \in {"getPRInfo", "fetchPRInfo", "createPRInfo"} ->
         IF ctx.issueNumber = 0 THEN "listPullRequestsAssociatedWithCommit" ELSE ""
    [] pc[r] = "collect" -> "nx"
    [] pc[r] = "listLabels" -> "listLabelsForRepo"
    [] pc[r] = "createLoop" ->
         IF /\ idx[r] <= Len(affectedTags[r].tags)
            /\ needsCreation(affectedTags[r].tags[idx[r]], repositoryLabels[r],
                             env.labelPrefix)
         THEN "createLabel" ELSE ""
    [] pc[r] = "addLabels" -> "addLabels"
    [] OTHER -> ""

\* A call site that issues its call again while the first is outstanding.
Request_notAwaited(r) ==
  /\ CallSite(r) # ""
  /\ Len(outstanding[r]) < 2
  /\ outstanding' = [outstanding EXCEPT ![r] = Append(@, CallSite(r))]
  /\ UNCHANGED << inputs, repoFiller, repoLabels, pc, pullRequestInfo, affectedTags,
                  prInfo, page, repositoryLabels, fetchedFiller, idx, calls >>

\* `await <call>`: the call is issued and the run is suspended on it.
Request(r) ==
  /\ CallSite(r) # ""
  /\ outstanding[r] = <<>>
  /\ outstanding' = [outstanding EXCEPT ![r] = <<CallSite(r)>>]
  /\ UNCHANGED << inputs, repoFiller, repoLabels, pc, pullRequestInfo, affectedTags,
                  prInfo, page, repositoryLabels, fetchedFiller, idx, calls >>

\* The awaited call returns (or the code made none) and the run resumes.
Resume(r) ==
  /\ outstanding[r] = IF CallSite(r) = "" THEN <<>> ELSE <<CallSite(r)>>
  /\ outstanding' = [outstanding EXCEPT ![r] = <<>>]

\* getEnvironmentVariables (src/main.ts 274-300): a missing token throws.
GetEnvironmentVariables(r) ==
  /\ pc[r] = "start"
  /\ UNCHANGED outstanding
  /\ pc' = [pc EXCEPT ![r] = IF env.token = "" THEN "error" ELSE "getPRInfo"]
  /\ UNCHANGED << inputs, repoFiller, repoLabels, pullRequestInfo, affectedTags,
                  prInfo, page, repositoryLabels, fetchedFiller, idx, calls >>

\* run() without the try/catch around getPRInfo.
RunGetPRInfo_uncaught(r) ==
  /\ pc[r] = "getPRInfo"
  /\ Resume(r)
  /\ \E reply \in PRReplies :
       LET res == getPRInfo(ctx, reply) IN
       /\ calls' = [calls EXCEPT ![r] = LogPRCall(@, ctx, reply, res)]
       /\ pullRequestInfo' = [pullRequestInfo EXCEPT
                                ![r] = IF res.threw THEN @ ELSE res.info]
       /\ pc' = [pc EXCEPT ![r] = IF res.threw THEN "error" ELSE "collect"]
  /\ UNCHANGED << inputs, repoFiller, repoLabels, affectedTags, prInfo, page,
                  repositoryLabels, fetchedFiller, idx >>

\* run(): try { pullRequestInfo = await getPRInfo } catch { return }
RunGetPRInfo(r) ==
  /\ pc[r] = "getPRInfo"
  /\ Resume(r)
  /\ \E reply \in PRReplies :
       LET res == getPRInfo(ctx, reply) IN
       /\ calls' = [calls EXCEPT ![r] = LogPRCall(@, ctx, reply, res)]
       /\ pullRequestInfo' = [pullRequestInfo EXCEPT
                                ![r] = IF res.threw THEN @ ELSE res.info]
       /\ pc' = [pc EXCEPT ![r] = IF res.threw THEN "done" ELSE "collect"]
  /\ UNCHANGED << inputs, repoFiller, repoLabels, affectedTags, prInfo, page,
                  repositoryLabels, fetchedFiller, idx >>

\* run(): affectedTags = await collectAffectedTags(...); the nx graph or the
\* nx subprocess may fail.
CollectAffectedTags(r) ==
  /\ pc[r] = "collect"
  /\ Resume(r)
  /\ \E ok \in BOOLEAN :
       /\ calls' = [calls EXCEPT ![r] = Append(@, [Call("nx", "", "") EXCEPT !.ok = ok])]
       /\ affectedTags' = [affectedTags EXCEPT ![r] =
            IF ok THEN collectAffectedTags(env.allAffectedTag, affected,
                                           configurations,
                                           env.projectTypeAbbreviations)
            ELSE @]
       /\ pc' = [pc EXCEPT ![r] = IF ok THEN "fetchPRInfo" ELSE "error"]
  /\ UNCHANGED << inputs, repoFiller, repoLabels, pullRequestInfo, prInfo, page,
                  repositoryLabels, fetchedFiller, idx >>

\* fetchRepositoryLabels: const { owner, repo } = await getPRInfo(octokit)
FetchGetPRInfo(r) ==
  /\ pc[r] = "fetchPRInfo"
  /\ Resume(r)
  /\ \E reply \in PRReplies :
       LET res == getPRInfo(ctx, reply) IN
       /\ calls' = [calls EXCEPT ![r] = LogPRCall(@, ctx, reply, res)]
       /\ prInfo' = [prInfo EXCEPT ![r] = res.info]
       /\ pc' = [pc EXCEPT ![r] = IF res.threw THEN "error" ELSE "listLabels"]
  /\ page' = [page EXCEPT ![r] = 1]
  /\ repositoryLabels' = [repositoryLabels EXCEPT ![r] = {}]
  /\ fetchedFiller' = [fetchedFiller EXCEPT ![r] = 0]
  /\ UNCHANGED << inputs, repoFiller, repoLabels, pullRequestInfo, affectedTags, idx >>

\* fetchRepositoryLabels: one iteration of the while (hasMorePages) loop.
ListLabelsForRepo(r) ==
  /\ pc[r] = "listLabels"
  /\ Resume(r)
  /\ \E ok \in BOOLEAN :
       LET count == ListedCount(repoFiller, repoLabels, page[r]) IN
       /\ calls' = [calls EXCEPT ![r] =
            Append(@, [Call("listLabelsForRepo", prInfo[r].owner, prInfo[r].repo)
                         EXCEPT !.ok = ok, !.page = page[r],
                                !.count = IF ok THEN count ELSE 0])]
       /\ IF ok
          THEN /\ repositoryLabels' = [repositoryLabels EXCEPT ![r] =
                    @ \cup ListedNames(repoFiller, repoLabels, page[r])]
               /\ fetchedFiller' = [fetchedFiller EXCEPT ![r] =
                    @ + ListedFiller(repoFiller, page[r])]
               /\ page' = [page EXCEPT ![r] = @ + 1]
               /\ pc' = [pc EXCEPT ![r] =
                    IF hasMorePages(count) THEN "listLabels" ELSE "createPRInfo"]
          ELSE /\ pc' = [pc EXCEPT ![r] = "error"]
               /\ UNCHANGED << repositoryLabels, fetchedFiller, page >>
  /\ UNCHANGED << inputs, repoFiller, repoLabels, pullRequestInfo, affectedTags,
                  prInfo, idx >>

\* createMissingLabels: const { owner, repo } = await getPRInfo(octokit), then
\* for (const tag of tags), which throws a TypeError when tags is undefined.
CreateGetPRInfo(r) ==
  /\ pc[r] = "createPRInfo"
  /\ Resume(r)
  /\ \E reply \in PRReplies :
       LET res == getPRInfo(ctx, reply) IN
       /\ calls' = [calls EXCEPT ![r] = LogPRCall(@, ctx, reply, res)]
       /\ prInfo' = [prInfo EXCEPT ![r] = res.info]
       /\ pc' = [pc EXCEPT ![r] =
            IF res.threw \/ ~affectedTags[r].defined THEN "error" ELSE "createLoop"]
  /\ idx' = [idx EXCEPT ![r] = 1]
  /\ UNCHANGED << inputs, repoFiller, repoLabels, pullRequestInfo, affectedTags,
                  page, repositoryLabels, fetchedFiller >>

\* createMissingLabels that swallows a createLabel error and goes on.
CreateLabel_swallowError(r) ==
  /\ pc[r] = "createLoop"
  /\ Resume(r)
  /\ idx[r] <= Len(affectedTags[r].tags)
  /\ LET tag == affectedTags[r].tags[idx[r]]
         tagPrefix == At(tag, 1)
     IN
     /\ needsCreation(tag, repositoryLabels[r], env.labelPrefix)
     /\ \E ok \in BOOLEAN :
          /\ ok => tag \notin Elems(repoLabels)
          /\ calls' = [calls EXCEPT ![r] =
               Append(@, [Call("createLabel", prInfo[r].owner, prInfo[r].repo)
                            EXCEPT !.ok = ok, !.name = tag,
                                   !.existed = tag \in Elems(repoLabels),
                                   !.color = env.labelPrefix[tagPrefix].color,
                                   !.description = env.labelPrefix[tagPrefix].description])]
          /\ repoLabels' = IF ok THEN Append(repoLabels, tag) ELSE repoLabels
          /\ pc' = pc
          /\ idx' = [idx EXCEPT ![r] = @ + 1]
  /\ UNCHANGED << inputs, repoFiller, pullRequestInfo, affectedTags, prInfo, page,
                  repositoryLabels, fetchedFiller >>

\* createMissingLabels: an iteration that creates the label.  GitHub rejects
\* the creation of a label whose name the repository already has.
CreateLabel(r) ==
  /\ pc[r] = "createLoop"
  /\ Resume(r)
  /\ idx[r] <= Len(affectedTags[r].tags)
  /\ LET tag == affectedTags[r].tags[idx[r]]
         tagPrefix == At(tag, 1)
     IN
     /\ needsCreation(tag, repositoryLabels[r], env.labelPrefix)
     /\ \E ok \in BOOLEAN :
          /\ ok => tag \notin Elems(repoLabels)
          /\ calls' = [calls EXCEPT ![r] =
               Append(@, [Call("createLabel", prInfo[r].owner, prInfo[r].repo)
                            EXCEPT !.ok = ok, !.name = tag,
                                   !.existed = tag \in Elems(repoLabels),
                                   !.color = env.labelPrefix[tagPrefix].color,
                                   !.description = env.labelPrefix[tagPrefix].description])]
          /\ repoLabels' = IF ok THEN Append(repoLabels, tag) ELSE repoLabels
          /\ pc' = [pc EXCEPT ![r] = IF ok THEN "createLoop" ELSE "error"]
          /\ idx' = [idx EXCEPT ![r] = IF ok THEN @ + 1 ELSE @]
  /\ UNCHANGED << inputs, repoFiller, pullRequestInfo, affectedTags, prInfo, page,
                  repositoryLabels, fetchedFiller >>

\* createMissingLabels: an iteration for a tag that exists or has no
\* prefix definition.
SkipLabel(r) ==
  /\ pc[r] = "createLoop"
  /\ UNCHANGED outstanding
  /\ idx[r] <= Len(affectedTags[r].tags)
  /\ ~needsCreation(affectedTags[r].tags[idx[r]], repositoryLabels[r], env.labelPrefix)
  /\ idx' = [idx EXCEPT ![r] = @ + 1]
  /\ UNCHANGED << inputs, repoFiller, repoLabels, pc, pullRequestInfo, affectedTags,
                  prInfo, page, repositoryLabels, fetchedFiller, calls >>

\* createMissingLabels: the loop is over, the function returns.
CreateMissingLabelsReturn(r) ==
  /\ pc[r] = "createLoop"
  /\ UNCHANGED outstanding
  /\ idx[r] > Len(affectedTags[r].tags)
  /\ pc' = [pc EXCEPT ![r] = "addLabels"]
  /\ UNCHANGED << inputs, repoFiller, repoLabels, pullRequestInfo, affectedTags,
                  prInfo, page, repositoryLabels, fetchedFiller, idx, calls >>

\* The tags of a Set that `existing` does not hold, in order.
RECURSIVE Without(_, _, _)
Without(tags, existing, i) ==
  IF i > Len(tags) THEN <<>>
  ELSE IF tags[i] \in existing THEN Without(tags, existing, i + 1)
       ELSE <<tags[i]>> \o Without(tags, existing, i + 1)

\* run() that applies only the tags that were not repository labels yet.
AddLabels_onlyMissing(r) ==
  /\ pc[r] = "addLabels"
  /\ Resume(r)
  /\ \E ok \in BOOLEAN :
       LET labels == Without(affectedTags[r].tags, repositoryLabels[r], 1) IN
       /\ calls' = [calls EXCEPT ![r] =
            Append(@, [Call("addLabels", pullRequestInfo[r].owner, pullRequestInfo[r].repo)
                         EXCEPT !.ok = ok, !.number = pullRequestInfo[r].number,
                                !.labels = labels])]
       /\ repoLabels' = IF ok THEN AppendMissing(repoLabels, labels, 1)
                        ELSE repoLabels
       /\ pc' = [pc EXCEPT ![r] = IF ok THEN "done" ELSE "error"]
  /\ UNCHANGED << inputs, repoFiller, pullRequestInfo, affectedTags, prInfo, page,
                  repositoryLabels, fetchedFiller, idx >>

\* run(): await octokit.rest.issues.addLabels(...)
AddLabels(r) ==
  /\ pc[r] = "addLabels"
  /\ Resume(r)
  /\ \E ok \in BOOLEAN :
       /\ calls' = [calls EXCEPT ![r] =
            Append(@, [Call("addLabels", pullRequestInfo[r].owner, pullRequestInfo[r].repo)
                         EXCEPT !.ok = ok, !.number = pullRequestInfo[r].number,
                                !.labels = affectedTags[r].tags])]
       /\ repoLabels' = IF ok THEN AppendMissing(repoLabels, affectedTags[r].tags, 1)
                        ELSE repoLabels
       /\ pc' = [pc EXCEPT ![r] = IF ok THEN "done" ELSE "error"]
  /\ UNCHANGED << inputs, repoFiller, pullRequestInfo, affectedTags, prInfo, page,
                  repositoryLabels, fetchedFiller, idx >>

\* --------------------------------------------------------- specifications
\* One invocation of run().
Next ==
  \/ GetEnvironmentVariables(1)
  \/ RunGetPRInfo(1)
  \/ CollectAffectedTags(1)
  \/ FetchGetPRInfo(1)
  \/ ListLabelsForRepo(1)
  \/ CreateGetPRInfo(1)
  \/ CreateLabel(1)
  \/ SkipLabel(1)
  \/ CreateMissingLabelsReturn(1)
  \/ AddLabels(1)
  \/ Request(1)

Spec == Init /\ [][Next]_vars

\* Two invocations of the same workflow step, the second started once the
\* first has returned normally (a failed step fails the workflow).
Ended(r) == pc[r] \in {"done", "error"}
Turn(r) == r = 1 \/ pc[1] = "done"

NextSeq ==
  \/ \E r \in Runs : Turn(r) /\ GetEnvironmentVariables(r)
  \/ \E r \in Runs : Turn(r) /\ RunGetPRInfo(r)
  \/ \E r \in Runs : Turn(r) /\ CollectAffectedTags(r)
  \/ \E r \in Runs : Turn(r) /\ FetchGetPRInfo(r)
  \/ \E r \in Runs : Turn(r) /\ ListLabelsForRepo(r)
  \/ \E r \in Runs : Turn(r) /\ CreateGetPRInfo(r)
  \/ \E r \in Runs : Turn(r) /\ CreateLabel(r)
  \/ \E r \in Runs : Turn(r) /\ SkipLabel(r)
  \/ \E r \in Runs : Turn(r) /\ CreateMissingLabelsReturn(r)
  \/ \E r \in Runs : Turn(r) /\ AddLabels(r)
  \/ \E r \in Runs : Turn(r) /\ Request(r)

SpecSeq == Init /\ [][NextSeq]_vars

\* Two invocations for the same commit of the same workspace running at the
\* same time (two workflow runs), their steps interleaved in any order.
InitConc ==
  /\ Init
  /\ env.token # ""
  /\ env.projectTypeAbbreviations = defaultProjectTypeAbbreviations
  /\ DOMAIN configurations = DOMAIN AllConfigurations
  /\ repoFiller = 0

NextConc ==
  \/ \E r \in Runs : GetEnvironmentVariables(r)
  \/ \E r \in Runs : RunGetPRInfo(r)
  \/ \E r \in Runs : CollectAffectedTags(r)
  \/ \E r \in Runs : FetchGetPRInfo(r)
  \/ \E r \in Runs : ListLabelsForRepo(r)
  \/ \E r \in Runs : CreateGetPRInfo(r)
  \/ \E r \in Runs : CreateLabel(r)
  \/ \E r \in Runs : SkipLabel(r)
  \/ \E r \in Runs : CreateMissingLabelsReturn(r)
  \/ \E r \in Runs : AddLabels(r)
  \/ \E r \in Runs : Request(r)

SpecConc == InitConc /\ [][NextConc]_vars

\* ================================================================ claims
Range(f) == { f[k] : k \in DOMAIN f }

\* The positions of a run's calls to one endpoint.
CallsTo(r, op) == { i \in 1..Len(calls[r]) : calls[r][i].op = op }

LabelEndpoints == {"listLabelsForRepo", "createLabel", "addLabels"}
LabelCalls(r) == { i \in 1..Len(calls[r]) : calls[r][i].op \in LabelEndpoints }

\* collectAffectedTags has returned in run r.
Collected(r) == \E i \in CallsTo(r, "nx") : calls[r][i].ok

AllAffected == Len(affected) = Cardinality(DOMAIN configurations)

SentinelOnly == [defined |-> TRUE, tags |-> <<env.allAffectedTag>>]

\* C1, as stated: whenever the affected list is as long as the catalog,
\* collectAffectedTags returns exactly {sentinel}.
C1_SentinelWheneverAllAffected ==
  \A r \in Runs : Collected(r) /\ AllAffected => affectedTags[r] = SentinelOnly

\* C1, amended: whenever the affected list is NON-EMPTY and as long as the
\* catalog, collectAffectedTags returns exactly {sentinel}: no declared tag
\* and no synthesized type:name tag is in it.
C1_SentinelWhenAllAffectedNonEmpty ==
  \A r \in Runs :
    Collected(r) /\ AllAffected /\ Len(affected) > 0 => affectedTags[r] = SentinelOnly

C1_Witness ==
  /\ Collected(1) /\ AllAffected /\ Len(affected) = 2
  /\ affectedTags[1] = SentinelOnly

\* No external call of run r has failed, and every pull-request lookup has
\* found a pull request.
NoCallFailed(r) ==
  \A i \in 1..Len(calls[r]) :
    /\ calls[r][i].ok
    /\ calls[r][i].op = "listPullRequestsAssociatedWithCommit" => calls[r][i].count > 0

\* C2: in a run whose affected list is empty (and in which no external call
\* fails), after PR context resolution no listLabels, createLabel or
\* addLabels call is issued and the run does not end in error.
C2_NoLabelCallsWhenNothingAffected ==
  \A r \in Runs :
    Collected(r) /\ Len(affected) = 0 /\ NoCallFailed(r)
      => LabelCalls(r) = {} /\ pc[r] # "error"

\* The run's first external call was listPullRequestsAssociatedWithCommit
\* and it returned an empty list.
NoPullRequestForCommit(r) ==
  /\ ctx.issueNumber = 0
  /\ Len(calls[r]) >= 1
  /\ calls[r][1].op = "listPullRequestsAssociatedWithCommit"
  /\ calls[r][1].ok
  /\ calls[r][1].count = 0

\* C3: a push-triggered run whose commit has no pull request ends normally
\* and has called none of listLabels, createLabel, addLabels.
C3_PushWithoutPullRequestEndsQuietly ==
  \A r \in Runs :
    NoPullRequestForCommit(r) => pc[r] = "done" /\ LabelCalls(r) = {}

C3_Witness == NoPullRequestForCommit(1) /\ pc[1] = "done"

\* createMissingLabels has returned in run r.
CreationDone(r) == pc[r] = "addLabels" \/ CallsTo(r, "addLabels") # {}

\* The tags createMissingLabels has to create: in T, not in the fetched set
\* E, with a prefix that D defines.
ToCreate(r) ==
  { t \in Elems(affectedTags[r].tags) :
      t \notin repositoryLabels[r] /\ t[1] \in DOMAIN env.labelPrefix }

\* C4: createMissingLabels issues createLabel only for tags of T that are not
\* in E and whose prefix D defines, never twice for one name, with the color
\* and description D gives the prefix; once it has returned it has issued
\* one for each such tag.
C4_CreatesExactlyTheMissingDefinedLabels ==
  \A r \in Runs :
    /\ \A i \in CallsTo(r, "createLabel") :
         LET c == calls[r][i] IN
         /\ c.name \in ToCreate(r)
         /\ c.color = env.labelPrefix[c.name[1]].color
         /\ c.description = env.labelPrefix[c.name[1]].description
         /\ \A j \in CallsTo(r, "createLabel") : calls[r][j].name = c.name => j = i
    /\ CreationDone(r) =>
         { calls[r][i].name : i \in CallsTo(r, "createLabel") } = ToCreate(r)

\* The spec's example: E = {lib:core}, T = {lib:core, app:web}, default D,
\* and the one createLabel call is for app:web.
C4_Witness ==
  /\ CreationDone(1)
  /\ env.labelPrefix = defaultLabelPrefixDefinitions
  /\ repositoryLabels[1] = { <<"lib", "core">> }
  /\ Elems(affectedTags[1].tags) = { <<"lib", "core">>, <<"app", "web">> }
  /\ Cardinality(CallsTo(1, "createLabel")) = 1
  /\ \A i \in CallsTo(1, "createLabel") : calls[1][i].name = <<"app", "web">>

\* C5: when the affected list is not as long as the catalog, the tag
\* synthesized from each affected project's type and name is in the result
\* and its prefix is a value of the abbreviation map.
C5_SynthesizedPrefixIsAnAbbreviation ==
  \A r \in Runs :
    Collected(r) /\ ~AllAffected /\ affectedTags[r].defined =>
      \A i \in 1..Len(affected) :
        LET t == synthesizedTag(configurations[affected[i]],
                                env.projectTypeAbbreviations)
        IN t \in Elems(affectedTags[r].tags)
           /\ t[1] \in Range(env.projectTypeAbbreviations)

\* C6: when the affected list is empty, collectAffectedTags returns an empty
\* set of tags.
C6_EmptyAffectedYieldsEmptySet ==
  \A r \in Runs :
    Collected(r) /\ Len(affected) = 0
      => affectedTags[r] = [defined |-> TRUE, tags |-> <<>>]

\* The issue number PR context resolution produced: the event's, or the
\* first pull request of the first lookup.
ResolvedNumber(r) ==
  IF ctx.issueNumber # 0 THEN ctx.issueNumber ELSE calls[r][1].number

\* C7: addLabels is called at most once, on the resolved owner, repo and
\* issue number, with a duplicate-free list holding exactly the derived tag
\* set; a run that returns after deriving tags has called it.
C7_AppliesWholeTagSetOnce ==
  \A r \in Runs :
    /\ \A i \in CallsTo(r, "addLabels") :
         LET c == calls[r][i] IN
         /\ CallsTo(r, "addLabels") = {i}
         /\ c.owner = ctx.owner /\ c.repo = ctx.repo
         /\ c.number = ResolvedNumber(r) /\ c.number # 0
         /\ Elems(c.labels) = Elems(affectedTags[r].tags)
         /\ Cardinality(Elems(c.labels)) = Len(c.labels)
         /\ c.labels # <<>>
    /\ pc[r] = "done" /\ Collected(r) => CallsTo(r, "addLabels") # {}

\* The applied list holds a tag that was a label already and a tag that was
\* skipped for creation because its prefix has no definition.
C7_Witness ==
  /\ pc[1] = "done"
  /\ \E i \in CallsTo(1, "addLabels") :
       /\ calls[1][i].ok
       /\ \E t \in Elems(calls[1][i].labels) : t \in repositoryLabels[1]
       /\ \E t \in Elems(calls[1][i].labels) :
            t \notin repositoryLabels[1] /\ t[1] \notin DOMAIN env.labelPrefix

\* The first call of run r issued after PR context resolution.
AfterResolution(r) == IF ctx.issueNumber = 0 THEN 2 ELSE 1

\* The call made the awaiting code throw: an API or subprocess error, or a
\* pull-request lookup that found none.
CallFailed(c) ==
  \/ ~c.ok
  \/ c.op = "listPullRequestsAssociatedWithCommit" /\ c.count = 0

\* C8: a call that fails after PR context resolution is the run's last
\* external call and leaves the run in error; every label a createLabel call
\* created is still a repository label.
C8_FailureAbortsWithoutRetryOrRollback ==
  \A r \in Runs :
    /\ \A i \in AfterResolution(r)..Len(calls[r]) :
         CallFailed(calls[r][i]) => i = Len(calls[r]) /\ pc[r] = "error"
    /\ \A i \in CallsTo(r, "createLabel") :
         calls[r][i].ok => calls[r][i].name \in Elems(repoLabels)

\* A label was created and a later createLabel or addLabels call failed.
C8_Witness ==
  /\ pc[1] = "error"
  /\ \E i, j \in 1..Len(calls[1]) :
       /\ i < j
       /\ calls[1][i].op = "createLabel" /\ calls[1][i].ok
       /\ calls[1][j].op \in {"createLabel", "addLabels"} /\ ~calls[1][j].ok
       /\ calls[1][i].name \in Elems(repoLabels)

\* C9: in one run listPullRequestsAssociatedWithCommit is called at most
\* once, and listLabels and createLabel use the owner and repo resolved at
\* the start of the run.
C9_PRContextResolvedOnce ==
  \A r \in Runs :
    /\ Cardinality(CallsTo(r, "listPullRequestsAssociatedWithCommit")) <= 1
    /\ \A i \in CallsTo(r, "listLabelsForRepo") \cup CallsTo(r, "createLabel") :
         /\ calls[r][i].owner = pullRequestInfo[r].owner
         /\ calls[r][i].repo = pullRequestInfo[r].repo

\* The first run returned after applying its labels.
FirstRunSucceeded ==
  /\ pc[1] = "done"
  /\ \E i \in CallsTo(1, "addLabels") : calls[1][i].ok

\* The labels the first run created or found existing.
CreatedOrFound ==
  { calls[1][i].name : i \in { k \in CallsTo(1, "createLabel") : calls[1][k].ok } }
    \cup (repositoryLabels[1] \cap Elems(affectedTags[1].tags))

EverySecondRunStateKeepsCreatedLabels ==
  FirstRunSucceeded =>
    \A i \in CallsTo(2, "createLabel") : calls[2][i].name \notin CreatedOrFound

\* C10: after a first run that succeeded, a second run with the same inputs
\* issues no createLabel call for a tag the first run created or found
\* existing, and no step of it changes the repository's labels.
C10_SecondRunCreatesNothing ==
  /\ []EverySecondRunStateKeepsCreatedLabels
  /\ [][FirstRunSucceeded => repoLabels' = repoLabels /\ repoFiller' = repoFiller]_vars

\* Both runs succeeded, the first created a label, and the second had to
\* read a second page of labels to find it.
C10_Witness ==
  /\ FirstRunSucceeded
  /\ pc[2] = "done"
  /\ \E i \in CallsTo(2, "addLabels") : calls[2][i].ok
  /\ \E i \in CallsTo(1, "createLabel") : calls[1][i].ok
  /\ Cardinality(CallsTo(2, "listLabelsForRepo")) = 2

\* The repository's label count, and the positions of run r's listLabels
\* calls.
LabelCount == repoFiller + Len(repoLabels)
ListCalls(r) == CallsTo(r, "listLabelsForRepo")

\* fetchRepositoryLabels has just returned in run r; the repository is as it
\* was when the first page was requested.
FetchReturned(r) == pc[r] = "createPRInfo"

\* C11: against a stable listing of N labels fetchRepositoryLabels requests
\* pages 1, 2, ... in order, never more than N div PerPage + 1 of them (so it
\* terminates), goes on after a full page and stops after the first page
\* that is not full, and returns, after exactly N div PerPage + 1 calls,
\* exactly the N label names.
C11_FetchReadsEveryPageOnce ==
  \A r \in Runs :
    /\ \A i \in ListCalls(r) :
         /\ calls[r][i].page = Cardinality({ k \in ListCalls(r) : k <= i })
         /\ (calls[r][i].ok /\ calls[r][i].count < PerPage)
              => \A k \in ListCalls(r) : k <= i
         /\ (\E k \in ListCalls(r) : k > i)
              => calls[r][i].ok /\ calls[r][i].count = PerPage
    /\ pc[r] \in {"listLabels", "createPRInfo"} =>
         Cardinality(ListCalls(r)) <= (LabelCount \div PerPage) + 1
    /\ FetchReturned(r) =>
         /\ Cardinality(ListCalls(r)) = (LabelCount \div PerPage) + 1
         /\ repositoryLabels[r] = Elems(repoLabels)
         /\ fetchedFiller[r] = repoFiller

\* Three pages were read: two full ones and a last one holding tag labels.
C11_Witness ==
  /\ FetchReturned(1)
  /\ Cardinality(ListCalls(1)) = 3
  /\ fetchedFiller[1] = 2 * PerPage
  /\ Cardinality(repositoryLabels[1]) = 2

\* The place of an endpoint in run()'s sequence of label work.
Rank(op) ==
  CASE op = "nx" -> 1
    [] op = "listLabelsForRepo" -> 2
    [] op = "createLabel" -> 3
    [] op = "addLabels" -> 4
    [] OTHER -> 0

\* The returned calls of run r other than pull-request lookups.
WorkCalls(r) ==
  { i \in 1..Len(calls[r]) : calls[r][i].op # "listPullRequestsAssociatedWithCommit" }

\* Run r has begun deriving the affected projects.
DerivationBegun(r) == CallsTo(r, "nx") # {} \/ outstanding[r] = <<"nx">>

\* C12: a run never has more than one external call outstanding; calls
\* return in the order nx, listLabels..., createLabel..., addLabels; a call
\* is issued only after every call of an earlier stage has returned; and on
\* a push event the pull-request lookup has returned a pull request before
\* the derivation begins.
C12_CallsAreSequential ==
  \A r \in Runs :
    /\ Len(outstanding[r]) <= 1
    /\ \A i, j \in WorkCalls(r) :
         i < j => Rank(calls[r][i].op) <= Rank(calls[r][j].op)
    /\ \A k \in 1..Len(outstanding[r]) :
         Rank(outstanding[r][k]) # 0 =>
           \A i \in WorkCalls(r) : Rank(calls[r][i].op) <= Rank(outstanding[r][k])
    /\ \A i \in WorkCalls(r) :
         calls[r][i].op \in {"nx", "addLabels"} => \A j \in WorkCalls(r) :
           calls[r][j].op = calls[r][i].op => j = i
    /\ (ctx.issueNumber = 0 /\ DerivationBegun(r)) =>
         /\ Len(calls[r]) >= 1
         /\ calls[r][1].op = "listPullRequestsAssociatedWithCommit"
         /\ calls[r][1].ok /\ calls[r][1].count > 0

\* A second createLabel call is awaited after the first has returned, on a
\* push-triggered run.
C12_Witness ==
  /\ ctx.issueNumber = 0
  /\ outstanding[1] = <<"createLabel">>
  /\ \E i \in CallsTo(1, "createLabel") : calls[1][i].ok
  /\ CallsTo(1, "listLabelsForRepo") # {}

\* The declared tags of the affected projects together with the tag
\* synthesized for each: what the claim's union is when every declared tag
\* is emitted as its own prefix:suffix.
DeclaredAndSynthesized ==
  UNION { Elems(configurations[affected[i]].tags)
            \cup { synthesizedTag(configurations[affected[i]],
                                  env.projectTypeAbbreviations) }
          : i \in 1..Len(affected) }

\* C13: for a (non-empty) affected list that is not as long as the catalog,
\* collectAffectedTags returns the union, over the affected projects, of the
\* synthesized tag and the declared tags, every declared tag unchanged.
C13_ResultIsUnionWithDeclaredTagsUnchanged ==
  \A r \in Runs :
    Collected(r) /\ ~AllAffected /\ Len(affected) > 0 =>
      /\ affectedTags[r].defined
      /\ Elems(affectedTags[r].tags) = DeclaredAndSynthesized

\* Run r was aborted by GitHub rejecting the creation of an existing label.
AbortedByDuplicate(r) ==
  /\ pc[r] = "error"
  /\ Len(calls[r]) >= 1
  /\ calls[r][Len(calls[r])].op = "createLabel"
  /\ calls[r][Len(calls[r])].existed

\* C14: with two invocations running at the same time, no createLabel call
\* is made for a name the repository already has when the call is served,
\* so no invocation is aborted by a duplicate-label error before addLabels.
C14_NoCreationOfExistingLabel ==
  \A r \in Runs :
    /\ \A i \in CallsTo(r, "createLabel") : ~calls[r][i].existed
    /\ ~AbortedByDuplicate(r)

====
